---- MODULE Spec2Model ----
(***************************************************************************)
(* Model of the download -> transcode -> mux -> cleanup pipeline of the    *)
(* video downloader: FileManager (fileManager.ts), MediaProcessor          *)
(* (the second half of youtubeStreamManager.ts) and YoutubeDownloader      *)
(* (youtubeDownloader.ts).                                                 *)
(*                                                                         *)
(* The specifications share the variables:                                 *)
(*   Spec         one run of MediaProcessor.processMedia, with the two     *)
(*                ffmpeg processes and the filesystem as concurrent        *)
(*                environment;                                             *)
(*   SpecCleanup  FileManager.cleanupTemporaryFiles called repeatedly on   *)
(*                one workspace, from every consistent filesystem state;   *)
(*   SpecShared   FileManager construction and workspace naming for        *)
(*                several downloaders and overlapping runs;                *)
(*   SpecValidate validateUrl applied to every identifier up to MaxUrlLen; *)
(*   SpecApi      one call of a public operation of YoutubeStreamManager,  *)
(*                YoutubeDownloader or the older YouTubeDownloader;        *)
(*   SpecProgress one createStreams call and the data callbacks of the two *)
(*                streams it opened.                                       *)
(***************************************************************************)
EXTENDS Integers, Sequences, FiniteSets, TLC

VARIABLES
    pc,          \* position of processMedia
    cpc,         \* position of cleanupTemporaryFiles
    fs,          \* set of paths that exist on disk
    outInside,   \* TRUE when finalOutputPath lies below tempDir
    stage,       \* state of the two ffmpeg transcodes, [Stages -> StageStates]
    mux,         \* state of the combineStreams ffmpeg command
    caught,      \* the `error` bound by the catch of processMedia, or "none"
    result,      \* what processMedia settled with: "none", "ok" or an error
    errors,      \* the `errors` array of cleanupTemporaryFiles (by target path)
    attempted,   \* targets whose deletion step the running cleanup has passed
    dirContents, \* what readdir returned: "none", "empty" or "nonempty"
    fsFault,     \* TRUE once the filesystem itself refused an operation
    calls,       \* number of cleanupTemporaryFiles calls made (SpecCleanup)
    fsLog,       \* the filesystem as found at each of those calls
    now,         \* Date.now() (SpecShared)
    fmTimestamp, \* FileManager.timestamp of each downloader, -1 before `new`
    runs,        \* the downloadVideo calls in flight (SpecShared)
    op,          \* the public operation that was called, or "none"
    fn,          \* the function of that call which is executing now
    apc,         \* position inside fn
    url,         \* the identifier passed to the operation, a token sequence
    validated,   \* what the last validateUrl call did: "true", "false", "throws"
    withSink,    \* TRUE when the caller passed an onProgress callback
    lookups,     \* number of ytdl.getBasicInfo / ytdl.getInfo calls issued
    candidates,  \* how many formats each filter kept; -1 before it ran
    opened,      \* the download streams opened by ytdl(url, {format})
    totalBytes,  \* `totalBytes` computed by createStreams
    streamLen,   \* bytes each opened stream will deliver
    delivered,   \* bytes each stream has delivered in 'data' events
    downloadedBytes, \* the `downloadedBytes` closure variable of each stream
    lastEvent,   \* the last progress object passed to createStreams' onProgress
    sinkState,   \* `state` of the last object passed to downloadVideo's onProgress
    apiResult,   \* how the operation settled: "none", "ok" or an error
    returned,    \* the list getAvailableFormats resolved with
    options,     \* the ProcessingOptions codecs: videoCodec, audioCodec
    backendCodec, \* the codec each single-stream ffmpeg command was given
    pmSink,      \* TRUE when processMedia was passed an onProgress callback
    reported,    \* the stages whose ffmpeg command emitted 'progress'
    sinkTags,    \* the `stage` tags passed to processMedia's onProgress
    destroyed,   \* the download streams destroyed by cleanupStreams
    sharedDownloaded, \* `downloadedBytes` of createDownloadStream
    videoDetails, \* App state: "null" or "data"
    isLoading,   \* App state
    downloadStatus, \* App state, a DownloadStatus
    downloadProgress, \* App state
    hpc,         \* position of each handleURLSubmit call
    intervals    \* the setInterval timers of startDownload not cleared yet

pipeVars == <<pc, outInside, stage, mux, caught, result>>
cleanVars == <<cpc, errors, attempted, dirContents>>
callVars == <<calls, fsLog>>
codecVars == <<options, backendCodec>>
progVars == <<pmSink, reported, sinkTags>>
legacyVars == <<destroyed, sharedDownloaded>>
obsVars == <<codecVars, progVars, legacyVars>>
sharedVars == <<now, fmTimestamp, runs>>
appVars == <<videoDetails, isLoading, downloadStatus, downloadProgress>>
clientVars == <<appVars, hpc, intervals>>
callerVars == <<op, url, withSink>>
ctlVars == <<fn, apc, apiResult, sinkState>>
streamVars ==
    <<candidates, opened, totalBytes, streamLen, delivered, downloadedBytes, lastEvent>>
apiVars == <<callerVars, ctlVars, streamVars, validated, lookups, returned>>
vars == <<pc, cpc, fs, outInside, stage, mux, caught, result, errors, attempted,
          dirContents, fsFault, calls, fsLog, now, fmTimestamp, runs, apiVars,
          obsVars, clientVars>>

(***************************************************************************)
(* Bounds                                                                  *)
(***************************************************************************)
MaxCalls == 2
MaxClock == 2
NumDownloaders == 2
NumRuns == 2
MaxUrlLen == 3
MaxFormats == 2
MaxLen == 2
MaxSubmits == 3

(***************************************************************************)
(* Paths and the filesystem                                                *)
(***************************************************************************)
Stages == {"video", "audio"}
Sibling(s) == IF s = "video" THEN "audio" ELSE "video"
StagePath(s) == IF s = "video" THEN "videoPath" ELSE "audioPath"

TemporaryPaths == {"tempDir", "videoPath", "audioPath"}
Paths == TemporaryPaths \cup {"outputPath"}

\* entries of tempDir: the two intermediates, and the output when the caller
\* bound an output path below tempDir
Children(inside) ==
    {"videoPath", "audioPath"} \cup (IF inside THEN {"outputPath"} ELSE {})

\* a file below tempDir exists only while tempDir exists
Consistent(f, inside) == (Children(inside) \cap f # {}) => "tempDir" \in f

ExistsSync(p, f) == p \in f


(***************************************************************************)
(* Identifiers and validateUrl                                             *)
(***************************************************************************)
\* An identifier is a string, modelled as a sequence of the substrings the
\* regular expression tells apart; "NL" is a line terminator and "x" any
\* other text.
UrlTokens ==
    {"http://", "https://", "www.", "youtube.com", "youtu.be", "other.com",
     "/", "x", "NL"}

SeqsUpTo(S, n) == UNION {[1..k -> S] : k \in 0..n}
Urls == SeqsUpTo(UrlTokens, MaxUrlLen)

\* u without its first token when that token is in set: an optional group
StripOpt(u, set) == IF Len(u) > 0 /\ Head(u) \in set THEN Tail(u) ELSE u

\* the regular expression, mutated: the `\/.+` after the host is not required
RegexTestNoPath(u) ==
    LET a == StripOpt(u, {"http://", "https://"})
        b == StripOpt(a, {"www."})
    IN  /\ Len(b) >= 1
        /\ b[1] \in {"youtube.com", "youtu.be"}
        /\ \A i \in 1..Len(b) : b[i] # "NL"

\* /^(https?:\/\/)?(www\.)?(youtube\.com|youtu\.be)\/.+$/.test(url)
RegexTest(u) ==
    LET a == StripOpt(u, {"http://", "https://"})
        b == StripOpt(a, {"www."})
    IN  /\ Len(b) >= 3
        /\ b[1] \in {"youtube.com", "youtu.be"}
        /\ b[2] = "/"
        /\ \A i \in 3..Len(b) : b[i] # "NL"

\* validateUrl: `if (!url) throw ...; return youtubeRegex.test(url)`
ValidateUrl(u) ==
    IF u = <<>> THEN "throws"
    ELSE IF RegexTest(u) THEN "true"
    ELSE "false"

\* the values `options.videoCodec` / `options.audioCodec` can have: absent,
\* the empty string, or a codec name
CodecValues == {"undefined", "", "copy", "libx264", "aac", "libmp3lame"}
OptionSets == [videoCodec : CodecValues, audioCodec : CodecValues]
NoOptions == [videoCodec |-> "undefined", audioCodec |-> "undefined"]

\* processMedia is given no codec option
NoOptionsGiven == options = NoOptions

\* no ffmpeg command started, no progress reported, no stream destroyed
ObsIdle ==
    /\ backendCodec = [s \in {"video", "audio"} |-> "none"]
    /\ pmSink = FALSE
    /\ reported = {}
    /\ sinkTags = {}
    /\ destroyed = {}
    /\ sharedDownloaded = 0

\* the App component as mounted: the useState initial values, no submission
\* made, no timer set
ClientIdle ==
    /\ videoDetails = "null"
    /\ isLoading = FALSE
    /\ downloadStatus = "idle"
    /\ downloadProgress = 0
    /\ hpc = [k \in 1..MaxSubmits |-> "idle"]
    /\ intervals = {}

\* no public operation has been called
NoCall ==
    /\ op = "none"
    /\ url = <<>>
    /\ withSink = FALSE

ApiIdle ==
    /\ fn = "none"
    /\ apc = "idle"
    /\ validated = "none"
    /\ lookups = 0
    /\ candidates = [s \in {"video", "audio"} |-> -1]
    /\ opened = {}
    /\ totalBytes = 0
    /\ streamLen = [s \in {"video", "audio"} |-> 0]
    /\ delivered = [s \in {"video", "audio"} |-> 0]
    /\ downloadedBytes = [s \in {"video", "audio"} |-> 0]
    /\ lastEvent = [n |-> 0, downloadedBytes |-> 0, totalBytes |-> 0,
                    percentage |-> [kind |-> "none", val |-> 0]]
    /\ sinkState = "none"
    /\ apiResult = "none"
    /\ returned = <<>>

\* validateUrl is called on an identifier
Validate ==
    /\ validated = "none"
    /\ validated' = ValidateUrl(url)
    /\ UNCHANGED <<fs, fsFault, pipeVars, cleanVars, callVars, obsVars, sharedVars, clientVars>>
    /\ UNCHANGED <<callerVars, ctlVars, streamVars, lookups, returned>>

(***************************************************************************)
(* FileManager.cleanupTemporaryFiles                                       *)
(***************************************************************************)
\* `if (fs.existsSync(filePath))` before unlink, mutated: unlink unguarded
NeedsUnlinkUnguarded(p, f) == TRUE

\* `if (fs.existsSync(filePath))`: unlink is issued only for a present file
NeedsUnlink(p, f) == ExistsSync(p, f)

\* the final throw, mutated: collected errors are dropped
CleanupOutcomeSwallow(errs) == "returned"

\* `if (errors.length > 0) throw new CleanupError(errors)`
CleanupOutcome(errs) == IF errs # {} THEN "threw" ELSE "returned"

\* entry of cleanupTemporaryFiles: `const errors = []`, first loop iteration
StartCleanup ==
    /\ cpc' = "video"
    /\ errors' = {}
    /\ attempted' = {}
    /\ dirContents' = "none"

\* one iteration of `for (const filePath of [videoPath, audioPath])`.
\* unlink of a present file succeeds or is refused by the filesystem
\* (EPERM, EBUSY); unlink of an absent file fails with ENOENT.  Either
\* failure is caught and pushed, and the loop goes on.
CleanupFile(step, p, next) ==
    /\ cpc = step
    /\ attempted' = attempted \cup {p}
    /\ IF NeedsUnlink(p, fs)
       THEN \/ /\ p \in fs
               /\ fs' = fs \ {p}
               /\ UNCHANGED <<errors, fsFault>>
            \/ /\ fs' = fs
               /\ errors' = errors \cup {p}
               /\ fsFault' = (fsFault \/ p \in fs)
       ELSE UNCHANGED <<fs, errors, fsFault>>
    /\ cpc' = next
    /\ UNCHANGED dirContents

CleanupVideo == CleanupFile("video", "videoPath", "audio")
CleanupAudio == CleanupFile("audio", "audioPath", "dir")

\* `if (fs.existsSync(tempDir)) { dirContents = await readdir(tempDir)`
CleanupReadDir ==
    /\ cpc = "dir"
    /\ attempted' = attempted \cup {"tempDir"}
    /\ fs' = fs
    /\ IF ExistsSync("tempDir", fs)
       THEN \/ /\ dirContents' = IF Children(outInside) \cap fs # {}
                                 THEN "nonempty" ELSE "empty"
               /\ cpc' = "remove"
               /\ UNCHANGED <<errors, fsFault>>
            \/ /\ errors' = errors \cup {"tempDir"}
               /\ fsFault' = TRUE
               /\ cpc' = CleanupOutcome(errors')
               /\ UNCHANGED dirContents
       ELSE /\ cpc' = CleanupOutcome(errors)
            /\ UNCHANGED <<errors, fsFault, dirContents>>

\* `if (dirContents.length > 0) rm(tempDir, {recursive, force}) else
\* rmdir(tempDir)`, the catch around it, and the final throw.  rm removes the
\* directory with all it holds, or is refused after removing some entries;
\* rmdir succeeds only on a directory that is (still) empty.
CleanupRemoveDir ==
    /\ cpc = "remove"
    /\ UNCHANGED <<attempted, dirContents>>
    /\ IF dirContents = "nonempty"
       THEN \/ /\ fs' = fs \ ({"tempDir"} \cup Children(outInside))
               /\ UNCHANGED <<errors, fsFault>>
            \/ /\ "tempDir" \in fs
               /\ \E gone \in SUBSET (Children(outInside) \cap fs) : fs' = fs \ gone
               /\ errors' = errors \cup {"tempDir"}
               /\ fsFault' = TRUE
       ELSE \/ /\ "tempDir" \in fs
               /\ Children(outInside) \cap fs = {}
               /\ fs' = fs \ {"tempDir"}
               /\ UNCHANGED <<errors, fsFault>>
            \/ /\ fs' = fs
               /\ errors' = errors \cup {"tempDir"}
               /\ fsFault' = (fsFault \/ ("tempDir" \in fs /\ Children(outInside) \cap fs = {}))
    /\ cpc' = CleanupOutcome(errors')

CleanupStep == CleanupVideo \/ CleanupAudio \/ CleanupReadDir \/ CleanupRemoveDir


(***************************************************************************)
(* MediaProcessor.processMedia                                             *)
(***************************************************************************)
StageStates == {"idle", "running", "writing", "ended", "error"}
Active == {"running", "writing"}

StageError(s) == IF s = "video" THEN "VideoFailed" ELSE "AudioFailed"
StepErrors ==
    {"VideoFailed", "AudioFailed", "IntermediateMissing", "MuxFailed", "OutputMissing"}

\* Promise.all, mutated into a join that fulfils with the first fulfilment
JoinOutcomeAny(v, a) ==
    IF v = "ended" \/ a = "ended" THEN "fulfilled"
    ELSE IF v = "error" \/ a = "error" THEN "rejected"
    ELSE "pending"

\* `await Promise.all([processVideoStream(..), processAudioStream(..)])`:
\* rejects as soon as one promise rejects, fulfils when both have fulfilled
JoinOutcome(v, a) ==
    IF v = "error" \/ a = "error" THEN "rejected"
    ELSE IF v = "ended" /\ a = "ended" THEN "fulfilled"
    ELSE "pending"

\* the settlement of processMedia, mutated: a failure of the final cleanup is
\* not propagated
SurfacedIgnoringCleanup(c, outcome) ==
    IF c # "none" THEN c
    ELSE "ok"

\* `catch (error) { await cleanupTemporaryFiles(tempPaths); throw error }` and
\* the cleanup after the try: what processMedia settles with, given the error
\* the catch bound (or "none") and how cleanupTemporaryFiles settled
Surfaced(c, outcome) ==
    IF outcome = "threw" THEN "CleanupError"
    ELSE IF c # "none" THEN c
    ELSE "ok"

\* the catch block, mutated: the error is rethrown without the cleanup
EnterCatchRethrow(e) ==
    /\ caught' = e
    /\ pc' = "rejected"
    /\ UNCHANGED cleanVars

\* control enters the catch block with error e and calls cleanup
EnterCatch(e) ==
    /\ caught' = e
    /\ pc' = "cleanup"
    /\ StartCleanup

\* `options.videoCodec || 'copy'` and `options.audioCodec || 'aac'`: the
\* value used when the option is absent or empty
DefaultCodec(s) == IF s = "video" THEN "copy" ELSE "aac"

\* the option processVideoStream / processAudioStream reads
CodecOption(s, o) == IF s = "video" THEN o.videoCodec ELSE o.audioCodec

\* the codec the ffmpeg command of stage s is given under options o
BackendCodec(s, o) ==
    IF CodecOption(s, o) \in {"undefined", ""} THEN DefaultCodec(s)
    ELSE CodecOption(s, o)

\* processMedia is called with a final output path outside or below tempDir,
\* with or without an onProgress callback (downloadVideo passes none)
ProcessMedia ==
    /\ pc = "idle"
    /\ \E inside \in BOOLEAN : outInside' = inside
    /\ pmSink' \in (IF op = "downloadVideo" THEN {FALSE} ELSE BOOLEAN)
    /\ pc' = "create"
    /\ UNCHANGED <<fs, stage, mux, caught, result, fsFault>>
    /\ UNCHANGED <<reported, sinkTags, codecVars, legacyVars>>
    /\ UNCHANGED <<cleanVars, callVars, sharedVars, apiVars, clientVars>>

\* `await createTemporaryPaths()`: mkdir succeeds and both ffmpeg commands are
\* started by the two calls inside Promise.all, or mkdir fails and the error
\* leaves processMedia before the try block
CreateTemporaryPaths ==
    /\ pc = "create"
    /\ \/ /\ fs' = fs \cup {"tempDir"}
          /\ stage' = [s \in Stages |-> "running"]
          /\ backendCodec' = [s \in Stages |-> BackendCodec(s, options)]
          /\ pc' = "join"
          /\ UNCHANGED <<result, fsFault>>
       \/ /\ pc' = "rejected"
          /\ result' = "WorkspaceCreationFailed"
          /\ fsFault' = TRUE
          /\ UNCHANGED <<fs, stage, backendCodec>>
    /\ UNCHANGED <<outInside, mux, caught>>
    /\ UNCHANGED <<options, progVars, legacyVars>>
    /\ UNCHANGED <<cleanVars, callVars, sharedVars, apiVars, clientVars>>

\* the ffmpeg process of stage s opens (creates) its output file
StageOpen(s) ==
    /\ stage[s] = "running"
    /\ "tempDir" \in fs
    /\ stage' = [stage EXCEPT ![s] = "writing"]
    /\ fs' = fs \cup {StagePath(s)}
    /\ UNCHANGED <<pc, outInside, mux, caught, result, fsFault>>
    /\ UNCHANGED <<cleanVars, callVars, obsVars, sharedVars, apiVars, clientVars>>

\* the promise of stage s settles to st ('end' or 'error' event) and the join
\* reacts: processMedia goes on only while it still awaits Promise.all
StageSettles(s, st) ==
    /\ stage[s] \in Active
    /\ stage' = [stage EXCEPT ![s] = st]
    /\ UNCHANGED <<fs, outInside, mux, result, fsFault, callVars, obsVars, sharedVars, apiVars, clientVars>>
    /\ LET o == JoinOutcome(stage'["video"], stage'["audio"]) IN
       IF pc = "join" /\ o = "fulfilled"
       THEN /\ pc' = "verifyTemp"
            /\ UNCHANGED <<caught, cleanVars>>
       ELSE IF pc = "join" /\ o = "rejected"
       THEN EnterCatch(StageError(s))
       ELSE UNCHANGED <<pc, caught, cleanVars>>

StageEnd(s) == StageSettles(s, "ended")
StageFail(s) == StageSettles(s, "error")

\* verifyTemporaryFiles, mutated: only the video file is looked for
TemporaryFilesVerifiedVideoOnly(f) == ExistsSync("videoPath", f)

\* verifyTemporaryFiles returns (TRUE) or throws (FALSE): it throws when
\* existsSync fails for videoPath or for audioPath
TemporaryFilesVerified(f) ==
    ExistsSync("videoPath", f) /\ ExistsSync("audioPath", f)

\* verifyOutputFile, mutated: the existence test is left out
OutputFileVerifiedAlways(f) == TRUE

\* verifyOutputFile returns (TRUE) or throws (FALSE)
OutputFileVerified(f) == ExistsSync("outputPath", f)

\* `await verifyTemporaryFiles(tempPaths)`, then combineStreams is started
VerifyTemporaryFiles ==
    /\ pc = "verifyTemp"
    /\ IF TemporaryFilesVerified(fs)
       THEN /\ pc' = "mux"
            /\ mux' = "running"
            /\ UNCHANGED <<caught, cleanVars>>
       ELSE /\ EnterCatch("IntermediateMissing")
            /\ UNCHANGED mux
    /\ UNCHANGED <<fs, outInside, stage, result, fsFault, callVars, obsVars, sharedVars, apiVars, clientVars>>

\* the mux ffmpeg process opens (creates) the output file
MuxOpen ==
    /\ pc = "mux"
    /\ mux = "running"
    /\ outInside => "tempDir" \in fs
    /\ mux' = "writing"
    /\ fs' = fs \cup {"outputPath"}
    /\ UNCHANGED <<pc, outInside, stage, caught, result, fsFault>>
    /\ UNCHANGED <<cleanVars, callVars, obsVars, sharedVars, apiVars, clientVars>>

\* combineStreams resolves ('end')
MuxEnd ==
    /\ pc = "mux"
    /\ mux \in Active
    /\ mux' = "ended"
    /\ pc' = "verifyOut"
    /\ UNCHANGED <<fs, outInside, stage, caught, result, fsFault>>
    /\ UNCHANGED <<cleanVars, callVars, obsVars, sharedVars, apiVars, clientVars>>

\* combineStreams rejects ('error')
MuxFail ==
    /\ pc = "mux"
    /\ mux \in Active
    /\ mux' = "error"
    /\ EnterCatch("MuxFailed")
    /\ UNCHANGED <<fs, outInside, stage, result, fsFault, callVars, obsVars, sharedVars, apiVars, clientVars>>

\* `await verifyOutputFile(finalOutputPath)`; on success control leaves the
\* try block and calls the final cleanup
VerifyOutputFile ==
    /\ pc = "verifyOut"
    /\ IF OutputFileVerified(fs)
       THEN /\ pc' = "cleanup"
            /\ StartCleanup
            /\ UNCHANGED caught
       ELSE EnterCatch("OutputMissing")
    /\ UNCHANGED <<fs, outInside, stage, mux, result, fsFault, callVars, obsVars, sharedVars, apiVars, clientVars>>

\* a step of the cleanup that processMedia awaits
PipelineCleanup ==
    /\ pc = "cleanup"
    /\ CleanupStep
    /\ UNCHANGED <<pipeVars, callVars, obsVars, sharedVars, apiVars, clientVars>>

\* the awaited cleanup settled: processMedia rethrows or returns
AfterCleanup ==
    /\ pc = "cleanup"
    /\ cpc \in {"returned", "threw"}
    /\ result' = Surfaced(caught, cpc)
    /\ pc' = IF result' = "ok" THEN "resolved" ELSE "rejected"
    /\ UNCHANGED <<fs, outInside, stage, mux, caught, fsFault>>
    /\ UNCHANGED <<cleanVars, callVars, obsVars, sharedVars, apiVars, clientVars>>

\* no run, no cleanup, no downloader yet
Quiescent ==
    /\ pc = "idle"
    /\ cpc = "idle"
    /\ fs = {}
    /\ outInside = FALSE
    /\ stage = [s \in Stages |-> "idle"]
    /\ mux = "idle"
    /\ caught = "none"
    /\ result = "none"
    /\ errors = {}
    /\ attempted = {}
    /\ dirContents = "none"
    /\ fsFault = FALSE
    /\ calls = 0
    /\ fsLog = <<>>
    /\ now = 0
    /\ fmTimestamp = [d \in 1..NumDownloaders |-> -1]
    /\ runs = [r \in 1..NumRuns |-> [st |-> "idle", d |-> 0, ts |-> -1]]

Init ==
    /\ Quiescent
    /\ NoCall
    /\ ApiIdle
    /\ NoOptionsGiven
    /\ ObsIdle
    /\ ClientIdle

Next ==
    \/ ProcessMedia
    \/ CreateTemporaryPaths
    \/ \E s \in Stages : StageOpen(s)
    \/ \E s \in Stages : StageEnd(s)
    \/ \E s \in Stages : StageFail(s)
    \/ VerifyTemporaryFiles
    \/ MuxOpen
    \/ MuxEnd
    \/ MuxFail
    \/ VerifyOutputFile
    \/ PipelineCleanup
    \/ AfterCleanup

Spec == Init /\ [][Next]_vars

TypeOK ==
    /\ pc \in {"idle", "create", "join", "verifyTemp", "mux", "verifyOut",
               "cleanup", "resolved", "rejected"}
    /\ cpc \in {"idle", "video", "audio", "dir", "remove", "returned", "threw"}
    /\ fs \subseteq Paths
    /\ Consistent(fs, outInside)
    /\ stage \in [Stages -> StageStates]
    /\ mux \in StageStates
    /\ caught \in StepErrors \cup {"none", "TypeError", "NoSuitableFormat"}
    /\ result \in StepErrors \cup {"none", "ok", "CleanupError", "WorkspaceCreationFailed"}
    /\ errors \subseteq TemporaryPaths
    /\ attempted \subseteq TemporaryPaths
    /\ dirContents \in {"none", "empty", "nonempty"}


(***************************************************************************)
(* cleanupTemporaryFiles called on its own, repeatedly, on one workspace   *)
(***************************************************************************)
\* a caller invokes cleanupTemporaryFiles(paths) (again)
CallCleanup ==
    /\ pc = "idle"
    /\ cpc \in {"idle", "returned", "threw"}
    /\ calls < MaxCalls
    /\ calls' = calls + 1
    /\ fsLog' = Append(fsLog, fs)
    /\ StartCleanup
    /\ UNCHANGED <<fs, fsFault, pipeVars, obsVars, sharedVars, apiVars, clientVars>>

\* a step of that call
StandaloneCleanup ==
    /\ pc = "idle"
    /\ CleanupStep
    /\ UNCHANGED <<pipeVars, callVars, obsVars, sharedVars, apiVars, clientVars>>

InitCleanup ==
    /\ pc = "idle"
    /\ cpc = "idle"
    /\ outInside \in BOOLEAN
    /\ fs \in {f \in SUBSET Paths : Consistent(f, outInside)}
    /\ stage = [s \in Stages |-> "idle"]
    /\ mux = "idle"
    /\ caught = "none"
    /\ result = "none"
    /\ errors = {}
    /\ attempted = {}
    /\ dirContents = "none"
    /\ fsFault = FALSE
    /\ calls = 0
    /\ fsLog = <<>>
    /\ now = 0
    /\ fmTimestamp = [d \in 1..NumDownloaders |-> -1]
    /\ runs = [r \in 1..NumRuns |-> [st |-> "idle", d |-> 0, ts |-> -1]]
    /\ NoCall
    /\ ApiIdle
    /\ NoOptionsGiven
    /\ ObsIdle
    /\ ClientIdle

NextCleanup == CallCleanup \/ StandaloneCleanup

SpecCleanup == InitCleanup /\ [][NextCleanup]_vars

(***************************************************************************)
(* Workspace naming: FileManager construction and overlapping runs         *)
(***************************************************************************)
Downloaders == 1..NumDownloaders
Runs == 1..NumRuns

\* `path.join(os.tmpdir(), `${prefix}_${this.timestamp}`)`
BaseTempDir(ts) == <<"tmpdir", "ytdownload", ts>>

\* the paths createTemporaryPaths returns for a FileManager built at ts
TemporaryPathsFor(ts) ==
    [tempDir   |-> BaseTempDir(ts),
     videoPath |-> <<BaseTempDir(ts), "temp_video", ts>>,
     audioPath |-> <<BaseTempDir(ts), "temp_audio", ts>>]

\* the clock read by Date.now() advances
Tick ==
    /\ now < MaxClock
    /\ now' = now + 1
    /\ UNCHANGED <<fmTimestamp, runs, fs, fsFault, pipeVars, cleanVars, callVars, obsVars, apiVars, clientVars>>

\* `new YoutubeDownloader()`: its FileManager takes timestamp = Date.now()
NewYoutubeDownloader(d) ==
    /\ fmTimestamp[d] = -1
    /\ fmTimestamp' = [fmTimestamp EXCEPT ![d] = now]
    /\ UNCHANGED <<now, runs, fs, fsFault, pipeVars, cleanVars, callVars, obsVars, apiVars, clientVars>>

\* downloadVideo is called on downloader d (run r begins)
DownloadVideo(r, d) ==
    /\ runs[r].st = "idle"
    /\ fmTimestamp[d] >= 0
    /\ runs' = [runs EXCEPT ![r] = [st |-> "started", d |-> d, ts |-> -1]]
    /\ UNCHANGED <<now, fmTimestamp, fs, fsFault, pipeVars, cleanVars, callVars, obsVars, apiVars, clientVars>>

\* processMedia of run r obtains its workspace from the downloader's FileManager
RunCreatesPaths(r) ==
    /\ runs[r].st = "started"
    /\ runs' = [runs EXCEPT ![r].st = "active", ![r].ts = fmTimestamp[runs[r].d]]
    /\ UNCHANGED <<now, fmTimestamp, fs, fsFault, pipeVars, cleanVars, callVars, obsVars, apiVars, clientVars>>

\* run r settles
RunSettles(r) ==
    /\ runs[r].st = "active"
    /\ runs' = [runs EXCEPT ![r].st = "done"]
    /\ UNCHANGED <<now, fmTimestamp, fs, fsFault, pipeVars, cleanVars, callVars, obsVars, apiVars, clientVars>>

NextShared ==
    \/ Tick
    \/ \E d \in Downloaders : NewYoutubeDownloader(d)
    \/ \E r \in Runs, d \in Downloaders : DownloadVideo(r, d)
    \/ \E r \in Runs : RunCreatesPaths(r)
    \/ \E r \in Runs : RunSettles(r)

SpecShared == Init /\ [][NextShared]_vars

Workspace(r) == TemporaryPathsFor(runs[r].ts)

(***************************************************************************)
(* The public operations: YoutubeStreamManager, YoutubeDownloader and the  *)
(* older YouTubeDownloader.createDownloadStream                            *)
(***************************************************************************)
ManagerFns == {"getVideoInfo", "getAvailableFormats", "createStreams"}
PublicOps == ManagerFns \cup {"downloadVideo", "createDownloadStream"}

\* the function a call of operation o executes first
FirstFn(o) == IF o = "downloadVideo" THEN "getVideoInfo" ELSE o

\* identifiers the operations are called with: empty, host only, another
\* host, and two of the accepted shape
SampleUrls ==
    {<<>>,
     <<"youtube.com">>,
     <<"https://", "other.com", "/", "x">>,
     <<"youtu.be", "/", "x">>,
     <<"https://", "www.", "youtube.com", "/", "x">>}

\* contentLength of a format: a decimal string, or -1 when the field is absent
Lengths == {-1} \cup (1..MaxLen)

\* ytdl.videoFormat, reduced to the fields the code reads
Formats ==
    {f \in [hasVideo : BOOLEAN, hasAudio : BOOLEAN, contentLength : Lengths] :
        f.hasVideo \/ f.hasAudio}

\* what `await ytdl.getInfo(url)` can produce: a rejection, a nullish value,
\* an object without formats, or an object with a list of formats
InfoOutcomes ==
    {[kind |-> k, formats |-> <<>>] : k \in {"rejects", "nullish", "noFormats"}}
        \cup {[kind |-> "list", formats |-> l] : l \in SeqsUpTo(Formats, MaxFormats)}

\* what `await ytdl.getBasicInfo(url)` can produce
BasicInfoOutcomes == {"rejects", "nullish", "noDetails", "details"}

\* `if (!validateUrl(url)) throw`, mutated: the returned value is ignored
PassesValidationUnchecked(v) == v # "throws"

\* `if (!validateUrl(url)) throw ...`: control goes on only for true
PassesValidation(v) == v = "true"

\* the error a function ends with when validation did not pass
ValidationError(v) == IF v = "throws" THEN "EmptyUrl" ELSE "InvalidUrl"

\* `parseInt(format.contentLength || '0')`
ParseLength(len) == IF len = -1 THEN 0 ELSE len

\* info.formats.filter(f => f.hasVideo) / filter(f => f.hasAudio)
VideoFormats(l) == {l[i] : i \in {j \in 1..Len(l) : l[j].hasVideo}}
AudioFormats(l) == {l[i] : i \in {j \in 1..Len(l) : l[j].hasAudio}}

\* the lengths of the two filtered lists
Candidates(l) ==
    [s \in Stages |->
        Cardinality({j \in 1..Len(l) :
                        IF s = "video" THEN l[j].hasVideo ELSE l[j].hasAudio})]

\* format selection, mutated: the video stream is opened as soon as a video
\* format was chosen
OpenedBySelectionEager(vc, ac) ==
    IF vc = {} THEN {}
    ELSE IF ac = {} THEN {"video"}
    ELSE Stages

\* the streams createStreams has opened when its synchronous block ends:
\* both chooseFormat calls and the `!videoFormat || !audioFormat` test come
\* before the two createProgressTrackingStream calls
OpenedBySelection(vc, ac) == IF vc = {} \/ ac = {} THEN {} ELSE Stages

\* the result of getAvailableFormats for a lookup outcome i: only a rejected
\* lookup and a missing `formats` are errors
FormatsResult(i) ==
    IF i.kind = "rejects" THEN "LookupFailed"
    ELSE IF i.kind \in {"nullish", "noFormats"} THEN "NoFormats"
    ELSE "ok"

\* info.formats.map(...): `contentLength: format.contentLength || '0'`
MapFormats(l) ==
    [i \in 1..Len(l) |-> [l[i] EXCEPT !.contentLength = ParseLength(@)]]

\* function f ends with r ("ok" or an error): the operation settles, or
\* downloadVideo goes on with its next call
FnReturn(f, r) ==
    IF op = "downloadVideo" /\ f = "getVideoInfo" /\ r = "ok"
    THEN /\ fn' = "createStreams"
         /\ apc' = "validate"
         /\ UNCHANGED <<apiResult, sinkState>>
    ELSE IF op = "downloadVideo" /\ f = "createStreams" /\ r = "ok"
    THEN /\ fn' = "processMedia"
         /\ apc' = "await"
         /\ sinkState' = IF withSink THEN "processing" ELSE sinkState
         /\ UNCHANGED apiResult
    ELSE /\ fn' = "none"
         /\ apc' = "done"
         /\ apiResult' = r
         /\ UNCHANGED sinkState

\* the frame of an operation's step that touches no file and no run
NoPipelineStep == UNCHANGED <<fs, fsFault, pipeVars, cleanVars, callVars, obsVars, sharedVars, clientVars>>

\* a caller invokes public operation o
Call(o) ==
    /\ op = "none"
    /\ pc = "idle"
    /\ op' = o
    /\ url' \in SampleUrls
    /\ withSink' \in BOOLEAN
    /\ fn' = FirstFn(o)
    /\ apc' = "validate"
    /\ UNCHANGED <<apiResult, sinkState, streamVars, validated, lookups, returned>>
    /\ NoPipelineStep

\* the first statement of getVideoInfo, getAvailableFormats, createStreams
\* and createDownloadStream: validate, then issue the metadata lookup
ValidateStep ==
    /\ fn \in ManagerFns \cup {"createDownloadStream"}
    /\ apc = "validate"
    /\ validated' = ValidateUrl(url)
    /\ IF PassesValidation(validated')
       THEN /\ lookups' = lookups + 1
            /\ apc' = "lookup"
            /\ UNCHANGED <<fn, apiResult, sinkState>>
       ELSE /\ FnReturn(fn, ValidationError(validated'))
            /\ UNCHANGED lookups
    /\ UNCHANGED <<callerVars, streamVars, returned>>
    /\ NoPipelineStep

\* the result of getVideoInfo for a lookup outcome b
BasicInfoResult(b) ==
    IF b = "rejects" THEN "LookupFailed"
    ELSE IF b \in {"nullish", "noDetails"} THEN "NoDetails"
    ELSE "ok"

\* getVideoInfo after `await ytdl.getBasicInfo(url)`
GetVideoInfoSettles ==
    /\ fn = "getVideoInfo"
    /\ apc = "lookup"
    /\ \E b \in BasicInfoOutcomes : FnReturn(fn, BasicInfoResult(b))
    /\ UNCHANGED <<callerVars, streamVars, validated, lookups, returned>>
    /\ NoPipelineStep

\* getAvailableFormats after `await ytdl.getInfo(url)`
GetAvailableFormatsSettles ==
    /\ fn = "getAvailableFormats"
    /\ apc = "lookup"
    /\ \E i \in InfoOutcomes :
        /\ FnReturn(fn, FormatsResult(i))
        /\ returned' = IF FormatsResult(i) = "ok" THEN MapFormats(i.formats)
                       ELSE returned
    /\ UNCHANGED <<callerVars, streamVars, validated, lookups>>
    /\ NoPipelineStep

\* bytes a stream of format f delivers: its contentLength when the field is
\* present, any positive amount otherwise
ActualLengths(f) ==
    IF f.contentLength = -1 THEN 1..MaxLen ELSE {f.contentLength}

\* createStreams after `await ytdl.getInfo(url)`: select the two formats
\* (ytdl.chooseFormat picks among the candidates and throws when there is
\* none), compute totalBytes, open both streams
CreateStreamsSettles ==
    /\ fn = "createStreams"
    /\ apc = "lookup"
    /\ \E i \in InfoOutcomes :
        IF i.kind = "rejects"
        THEN /\ FnReturn(fn, "LookupFailed")
             /\ UNCHANGED streamVars
        ELSE IF i.kind \in {"nullish", "noFormats"}
        THEN /\ FnReturn(fn, "TypeError")
             /\ UNCHANGED streamVars
        ELSE LET vc == VideoFormats(i.formats)
                 ac == AudioFormats(i.formats)
             IN  /\ candidates' = Candidates(i.formats)
                 /\ opened' = OpenedBySelection(vc, ac)
                 /\ IF vc = {} \/ ac = {}
                    THEN /\ FnReturn(fn, "NoSuitableFormat")
                         /\ UNCHANGED <<totalBytes, streamLen>>
                    ELSE \E v \in vc, a \in ac :
                         \E lv \in ActualLengths(v), la \in ActualLengths(a) :
                            /\ totalBytes' = ParseLength(v.contentLength)
                                               + ParseLength(a.contentLength)
                            /\ streamLen' = [s \in Stages |->
                                               IF s = "video" THEN lv ELSE la]
                            /\ FnReturn(fn, "ok")
                 /\ UNCHANGED <<delivered, downloadedBytes, lastEvent>>
    /\ UNCHANGED <<callerVars, validated, lookups, returned>>
    /\ NoPipelineStep

\* createStreams was given an onProgress callback: by its caller, or by
\* downloadVideo, which always passes one
InnerSink == withSink \/ op = "downloadVideo"

\* `(downloadedBytes / totalBytes) * 100`, integer part; a division by zero
\* gives NaN (0/0) or Infinity
Percentage(d, t) ==
    IF t = 0 THEN [kind |-> IF d = 0 THEN "NaN" ELSE "Infinity", val |-> 0]
    ELSE [kind |-> "number", val |-> (d * 100) \div t]

\* a 'data' event of stream s with a chunk of n bytes: the listener that
\* createProgressTrackingStream attached adds to that stream's own
\* downloadedBytes and calls onProgress
StreamData(s) ==
    /\ s \in opened
    /\ delivered[s] < streamLen[s]
    /\ \E n \in 1..(streamLen[s] - delivered[s]) :
        /\ delivered' = [delivered EXCEPT ![s] = @ + n]
        /\ IF InnerSink
           THEN /\ downloadedBytes' = [downloadedBytes EXCEPT ![s] = @ + n]
                /\ lastEvent' = [n |-> lastEvent.n + 1,
                                 downloadedBytes |-> downloadedBytes'[s],
                                 totalBytes |-> totalBytes,
                                 percentage |->
                                     Percentage(downloadedBytes'[s], totalBytes)]
                /\ sinkState' = IF op = "downloadVideo" /\ withSink
                                THEN "downloading" ELSE sinkState
           ELSE UNCHANGED <<downloadedBytes, lastEvent, sinkState>>
    /\ UNCHANGED <<candidates, opened, totalBytes, streamLen>>
    /\ UNCHANGED <<callerVars, fn, apc, apiResult, validated, lookups, returned>>
    /\ NoPipelineStep

\* a step of the processMedia call that downloadVideo awaits
DownloadVideoProcess ==
    /\ op = "downloadVideo"
    /\ fn = "processMedia"
    /\ Next

\* `await processMedia(...)` settled: downloadVideo returns, or its catch
\* wraps the error ("Download failed: ...") and rethrows
DownloadVideoSettles ==
    /\ fn = "processMedia"
    /\ pc \in {"resolved", "rejected"}
    /\ FnReturn(fn, result)
    /\ UNCHANGED <<callerVars, streamVars, validated, lookups, returned>>
    /\ NoPipelineStep

\* errors thrown while the formats are selected
SelectErrors == {"TypeError", "NoSuitableFormat"}

\* createDownloadStream after `await ytdl.getInfo(url)`: a rejection leaves
\* the function, otherwise mkdir is issued
LegacyLookup ==
    /\ fn = "createDownloadStream"
    /\ apc = "lookup"
    /\ \/ FnReturn(fn, "LookupFailed")
       \/ /\ apc' = "mkdir"
          /\ UNCHANGED <<fn, apiResult, sinkState>>
    /\ UNCHANGED <<callerVars, streamVars, validated, lookups, returned>>
    /\ NoPipelineStep

\* `await fs.promises.mkdir(tempDir, {recursive: true})`, outside the try
LegacyMkdir ==
    /\ fn = "createDownloadStream"
    /\ apc = "mkdir"
    /\ \/ /\ fs' = fs \cup {"tempDir"}
          /\ apc' = "select"
          /\ UNCHANGED <<fn, apiResult, sinkState, fsFault>>
       \/ /\ FnReturn(fn, "WorkspaceCreationFailed")
          /\ fsFault' = TRUE
          /\ UNCHANGED fs
    /\ UNCHANGED <<callerVars, streamVars, validated, lookups, returned>>
    /\ UNCHANGED <<pipeVars, cleanVars, callVars, obsVars, sharedVars, clientVars>>

\* control enters createDownloadStream's catch block with error e
LegacyCatch(e) ==
    /\ caught' = e
    /\ apc' = "catch"
    /\ UNCHANGED <<fn, apiResult, sinkState>>

\* the try block up to the first await: `info` is read here for the first
\* time, both candidate lists are tested, both formats chosen, then the
\* video download is opened and its ffmpeg command started
LegacySelect ==
    /\ fn = "createDownloadStream"
    /\ apc = "select"
    /\ \E i \in InfoOutcomes :
        /\ i.kind # "rejects"
        /\ IF i.kind \in {"nullish", "noFormats"}
           THEN /\ LegacyCatch("TypeError")
                /\ UNCHANGED <<stage, streamVars>>
           ELSE LET vc == VideoFormats(i.formats)
                    ac == AudioFormats(i.formats)
                IN  /\ candidates' = Candidates(i.formats)
                    /\ IF vc = {} \/ ac = {}
                       THEN /\ LegacyCatch("NoSuitableFormat")
                            /\ UNCHANGED <<stage, opened, totalBytes, streamLen>>
                            /\ UNCHANGED <<delivered, downloadedBytes, lastEvent>>
                       ELSE \E v \in vc, a \in ac :
                         \E lv \in ActualLengths(v), la \in ActualLengths(a) :
                            /\ totalBytes' = ParseLength(v.contentLength)
                                               + ParseLength(a.contentLength)
                            /\ streamLen' = [s \in Stages |->
                                               IF s = "video" THEN lv ELSE la]
                            /\ opened' = {"video"}
                            /\ stage' = [stage EXCEPT !["video"] = "running"]
                            /\ apc' = "video"
                            /\ UNCHANGED <<caught, fn, apiResult, sinkState>>
                            /\ UNCHANGED <<delivered, downloadedBytes, lastEvent>>
    /\ UNCHANGED <<callerVars, validated, lookups, returned>>
    /\ UNCHANGED <<fs, fsFault, pc, outInside, mux, result>>
    /\ UNCHANGED <<cleanVars, callVars, obsVars, sharedVars, clientVars>>

\* the ffmpeg process of the stage createDownloadStream awaits creates its file
LegacyStageOpen(s) ==
    /\ fn = "createDownloadStream"
    /\ apc = s
    /\ StageOpen(s)

\* the promise around the ffmpeg command of stage s settles to st: after the
\* video the audio download is opened; after the audio both files are
\* looked for, the mux is started and the output stream returned
LegacyStageSettles(s, st) ==
    /\ fn = "createDownloadStream"
    /\ apc = s
    /\ stage[s] \in Active
    /\ IF st = "error"
       THEN /\ stage' = [stage EXCEPT ![s] = "error"]
            /\ LegacyCatch(StageError(s))
            /\ UNCHANGED <<opened, mux>>
       ELSE IF s = "video"
       THEN /\ stage' = [stage EXCEPT !["video"] = "ended", !["audio"] = "running"]
            /\ opened' = opened \cup {"audio"}
            /\ apc' = "audio"
            /\ UNCHANGED <<fn, apiResult, sinkState, caught, mux>>
       ELSE /\ stage' = [stage EXCEPT ![s] = "ended"]
            /\ UNCHANGED opened
            /\ IF TemporaryFilesVerified(fs)
               THEN /\ mux' = "running"
                    /\ FnReturn(fn, "ok")
                    /\ UNCHANGED caught
               ELSE /\ LegacyCatch("IntermediateMissing")
                    /\ UNCHANGED mux
    /\ UNCHANGED <<candidates, totalBytes, streamLen>>
    /\ UNCHANGED <<delivered, downloadedBytes, lastEvent>>
    /\ UNCHANGED <<callerVars, validated, lookups, returned>>
    /\ UNCHANGED <<fs, fsFault, pc, outInside, result>>
    /\ UNCHANGED <<cleanVars, callVars, obsVars, sharedVars, clientVars>>

LegacyStageEnd(s) == LegacyStageSettles(s, "ended")
LegacyStageFail(s) == LegacyStageSettles(s, "error")

\* the catch block's rethrow, mutated: an error of the cleanup replaces the
\* error the catch bound
LegacySurfacedCleanupFirst(c, cleanupFailed) ==
    IF cleanupFailed THEN "CleanupError" ELSE c

\* what createDownloadStream rejects with, given the error c its catch block
\* bound and whether the cleanup left something behind: cleanupStreams and
\* cleanupTempFiles swallow their errors, an outer try/catch swallows the rest
LegacySurfaced(c, cleanupFailed) == c

\* the catch block: `await cleanupStreams(...)`, `await cleanupTempFiles(...)`
\* and the rethrow ("Download stream creation failed: ...").  Each existing
\* file is unlinked, the directory removed with rmdir when it exists; every
\* refusal is logged and swallowed (keep: the files whose unlink is refused).
LegacyCleanup ==
    /\ fn = "createDownloadStream"
    /\ apc = "catch"
    /\ destroyed' = opened
    /\ \E keep \in SUBSET (fs \cap {"videoPath", "audioPath"}), refused \in BOOLEAN :
        LET fs1 == fs \ ({"videoPath", "audioPath"} \ keep)
            removable == "tempDir" \in fs1 /\ fs1 \cap Children(outInside) = {}
        IN  /\ fs' = IF removable /\ ~refused THEN fs1 \ {"tempDir"} ELSE fs1
            /\ fsFault' = (fsFault \/ keep # {} \/ (removable /\ refused))
            /\ FnReturn(fn, LegacySurfaced(caught, "tempDir" \in fs'))
    /\ attempted' = TemporaryPaths
    /\ UNCHANGED <<callerVars, streamVars, validated, lookups, returned>>
    /\ UNCHANGED <<pipeVars, cpc, errors, dirContents, callVars, sharedVars, clientVars>>
    /\ UNCHANGED <<codecVars, progVars, sharedDownloaded>>

\* 'end' or 'error' of the mux command, after createDownloadStream returned:
\* the handler calls cleanupStreams and cleanupTempFiles (not awaited; no
\* ffmpeg command is running any more) and, on 'error', destroys the output
\* stream with the error
LegacyMuxSettles(st) ==
    /\ op = "createDownloadStream"
    /\ apiResult = "ok"
    /\ mux = "running"
    /\ mux' = st
    /\ destroyed' = opened
    /\ \E keep \in SUBSET (fs \cap {"videoPath", "audioPath"}), refused \in BOOLEAN :
        LET fs1 == fs \ ({"videoPath", "audioPath"} \ keep)
            removable == "tempDir" \in fs1 /\ fs1 \cap Children(outInside) = {}
        IN  /\ fs' = IF removable /\ ~refused THEN fs1 \ {"tempDir"} ELSE fs1
            /\ fsFault' = (fsFault \/ keep # {} \/ (removable /\ refused))
    /\ attempted' = TemporaryPaths
    /\ UNCHANGED <<pc, outInside, stage, caught, result>>
    /\ UNCHANGED <<cpc, errors, dirContents, callVars, sharedVars, apiVars, clientVars>>
    /\ UNCHANGED <<codecVars, progVars, sharedDownloaded>>

LegacyMuxEnd == LegacyMuxSettles("ended")
LegacyMuxError == LegacyMuxSettles("error")

\* `downloadedBytes += chunk.length`, mutated: the counter restarts with
\* every chunk
LegacyDownloadedChunk(shared, n) == n

\* `downloadedBytes += chunk.length` in the 'data' listener of either
\* download: both listeners close over the one counter declared before the
\* video download is opened
LegacyDownloadedAfter(shared, n) == shared + n

\* a 'data' event of download s of createDownloadStream with a chunk of n
\* bytes; the listener exists only when onProgress was given
LegacyStreamData(s) ==
    /\ op = "createDownloadStream"
    /\ s \in opened \ destroyed
    /\ delivered[s] < streamLen[s]
    /\ \E n \in 1..(streamLen[s] - delivered[s]) :
        /\ delivered' = [delivered EXCEPT ![s] = @ + n]
        /\ IF withSink
           THEN /\ sharedDownloaded' = LegacyDownloadedAfter(sharedDownloaded, n)
                /\ lastEvent' = [n |-> lastEvent.n + 1,
                                 downloadedBytes |-> sharedDownloaded',
                                 totalBytes |-> totalBytes,
                                 percentage |->
                                     Percentage(sharedDownloaded', totalBytes)]
           ELSE UNCHANGED <<sharedDownloaded, lastEvent>>
    /\ UNCHANGED <<candidates, opened, totalBytes, streamLen, downloadedBytes>>
    /\ UNCHANGED <<callerVars, ctlVars, validated, lookups, returned>>
    /\ UNCHANGED <<fs, fsFault, pipeVars, cleanVars, callVars, sharedVars, clientVars>>
    /\ UNCHANGED <<codecVars, progVars, destroyed>>

\* 'end' of the ffmpeg command of stage s, which reads download s through a
\* pipe: its input ended, so every chunk was delivered before
LegacyDataStageEnd(s) ==
    /\ delivered[s] = streamLen[s]
    /\ LegacyStageEnd(s)

\* createDownloadStream with its downloads' 'data' events
NextLegacy ==
    \/ Call("createDownloadStream")
    \/ ValidateStep
    \/ LegacyLookup
    \/ LegacyMkdir
    \/ LegacySelect
    \/ \E s \in Stages : LegacyStageOpen(s)
    \/ \E s \in Stages : LegacyStreamData(s)
    \/ \E s \in Stages : LegacyDataStageEnd(s)
    \/ \E s \in Stages : LegacyStageFail(s)
    \/ LegacyCleanup
    \/ LegacyMuxEnd
    \/ LegacyMuxError

SpecLegacy == Init /\ [][NextLegacy]_vars

NextApi ==
    \/ \E o \in PublicOps : Call(o)
    \/ ValidateStep
    \/ GetVideoInfoSettles
    \/ GetAvailableFormatsSettles
    \/ CreateStreamsSettles
    \/ DownloadVideoProcess
    \/ DownloadVideoSettles
    \/ LegacyLookup
    \/ LegacyMkdir
    \/ LegacySelect
    \/ \E s \in Stages : LegacyStageOpen(s)
    \/ \E s \in Stages : LegacyStageEnd(s)
    \/ \E s \in Stages : LegacyStageFail(s)
    \/ LegacyCleanup
    \/ LegacyMuxEnd
    \/ LegacyMuxError

SpecApi == Init /\ [][NextApi]_vars

\* one createStreams call and the data its two streams deliver
NextProgress ==
    \/ Call("createStreams")
    \/ ValidateStep
    \/ CreateStreamsSettles
    \/ \E s \in Stages : StreamData(s)

SpecProgress == Init /\ [][NextProgress]_vars

(***************************************************************************)
(* Properties of one run of processMedia (Spec)                            *)
(***************************************************************************)
Terminal == pc \in {"resolved", "rejected"}
CleanupSettled == cpc \in {"returned", "threw"}

\* C1: when a pipeline step failed and the cleanup made while handling that
\* failure fails too, the error processMedia rejects with is still the step's
\* error (the error the catch block bound).
C1_PrimaryErrorSurfaced ==
    (pc = "rejected" /\ caught # "none") => result = caught

\* C2: when one of the two transcodes failed, its sibling is no longer
\* running once the run has reached the terminal Failed state.
C2_SiblingStoppedAtFailure ==
    \A s \in Stages :
        (pc = "rejected" /\ stage[s] = "error") => stage[Sibling(s)] \notin Active

\* C3: once the run is terminal, neither intermediate file exists.  Stated
\* for the runs in which the filesystem refused nothing, so that a violation
\* is due to the interleaving of the transcodes with cleanup alone.
C3_NoIntermediateAtTerminal ==
    (Terminal /\ ~fsFault) => ("videoPath" \notin fs /\ "audioPath" \notin fs)

\* C4: two runs that are in progress at the same time never share a workspace
\* root directory or an intermediate file path.
C4_WorkspacesDisjoint ==
    \A r1, r2 \in Runs :
        (r1 # r2 /\ runs[r1].st = "active" /\ runs[r2].st = "active")
            => /\ Workspace(r1).tempDir # Workspace(r2).tempDir
               /\ Workspace(r1).videoPath # Workspace(r2).videoPath
               /\ Workspace(r1).audioPath # Workspace(r2).audioPath

\* C5: the mux is started only when both transcodes have ended successfully;
\* in a run where a transcode failed the mux is never started.
C5_MuxOnlyAfterBoth ==
    /\ mux # "idle" => (stage["video"] = "ended" /\ stage["audio"] = "ended")
    /\ (\E s \in Stages : stage[s] = "error") => mux = "idle"

\* C5 witness: the mux has run after both transcodes ended
C5_Witness ==
    /\ mux = "ended"
    /\ stage["video"] = "ended"
    /\ stage["audio"] = "ended"

\* C6: cleanup never runs while a transcode of the same run is in progress.
C6_CleanupAfterBothSettled ==
    (pc = "cleanup" /\ cpc \in {"video", "audio", "dir", "remove"})
        => \A s \in Stages : stage[s] \notin Active

\* C7: when the run resolves, the output file exists at the bound path and
\* the workspace root directory does not.
C7_SuccessLeavesOutputOnly ==
    pc = "resolved" => ("outputPath" \in fs /\ "tempDir" \notin fs)

\* C8: when the run rejects, no file exists at the bound output path.  Stated
\* for an output path outside the workspace and a run in which the filesystem
\* refused nothing, the case most favourable to the claim.
C8_FailureLeavesNoOutput ==
    (pc = "rejected" /\ ~outInside /\ ~fsFault) => "outputPath" \notin fs

(***************************************************************************)
(* Properties of cleanupTemporaryFiles (SpecCleanup)                       *)
(***************************************************************************)
\* C9: a call of cleanupTemporaryFiles that finds the workspace already
\* removed (a second call after one that removed everything) raises no error
\* and leaves the filesystem as it found it.
C9_CleanupIdempotent ==
    (calls >= 2 /\ CleanupSettled /\ fsLog[calls] \cap TemporaryPaths = {})
        => (cpc = "returned" /\ errors = {} /\ fs = fsLog[calls])

\* C9 witness: the first call found the whole workspace and removed it, and
\* the second call has returned
C9_Witness ==
    /\ calls = 2
    /\ cpc = "returned"
    /\ TemporaryPaths \subseteq fsLog[1]
    /\ fsLog[2] \cap TemporaryPaths = {}

\* C10: when cleanupTemporaryFiles settles it has gone through all three
\* deletions (video, audio, root directory); it throws exactly when a
\* deletion error was collected, and every path it left behind is reported
\* among the collected errors.
C10_CleanupCollectsAll ==
    CleanupSettled =>
        /\ attempted = TemporaryPaths
        /\ (cpc = "threw") <=> (errors # {})
        /\ (fs \cap TemporaryPaths) \subseteq errors

\* C10 witness: the video deletion failed, the audio file was still deleted
\* afterwards, and the call threw with the video error collected
C10_Witness ==
    /\ cpc = "threw"
    /\ "videoPath" \in errors
    /\ "audioPath" \in fsLog[calls]
    /\ "audioPath" \notin fs
    /\ attempted = TemporaryPaths

(***************************************************************************)
(* SpecValidate: validateUrl on every identifier of at most MaxUrlLen      *)
(* tokens                                                                  *)
(***************************************************************************)
InitValidate ==
    /\ Quiescent
    /\ ApiIdle
    /\ op = "validateUrl"
    /\ url \in Urls
    /\ withSink = FALSE
    /\ NoOptionsGiven
    /\ ObsIdle
    /\ ClientIdle

NextValidate == Validate

SpecValidate == InitValidate /\ [][NextValidate]_vars

SchemeOpts == {<<>>, <<"http://">>, <<"https://">>}
WwwOpts == {<<>>, <<"www.">>}
Hosts == {"youtube.com", "youtu.be"}

\* the accepted URL shape, i.e. the language of youtubeRegex as a grammar: an
\* optional scheme, an optional www., one of the two hosts, a slash and a
\* non-empty rest without a line terminator
AcceptedShape(u) ==
    \E s \in SchemeOpts, w \in WwwOpts, h \in Hosts :
        LET p == s \o w \o <<h, "/">>
        IN  /\ Len(u) > Len(p)
            /\ SubSeq(u, 1, Len(p)) = p
            /\ \A i \in (Len(p) + 1)..Len(u) : u[i] # "NL"

\* C12 as stated: validateUrl returns true for the accepted shape and returns
\* false, never raising, for every other identifier, the empty one included.
C12_ValidateNeverRaises ==
    validated # "none" =>
        validated = (IF AcceptedShape(url) THEN "true" ELSE "false")

\* C12 amended: validateUrl returns true exactly for the accepted shape,
\* returns false for every other non-empty identifier, and raises for the
\* empty identifier.
C12_ValidateTotalButEmpty ==
    validated # "none" =>
        /\ AcceptedShape(url) => validated = "true"
        /\ (url # <<>> /\ ~AcceptedShape(url)) => validated = "false"
        /\ url = <<>> => validated = "throws"

\* a well-formed URL of another host was validated and true was not returned
C12_Witness ==
    /\ url = <<"https://", "other.com", "/">>
    /\ validated = "false"

\* C15: when both transcodes have completed and an intermediate file is
\* absent, verifyTemporaryFiles fails: the mux is never started, cleanup runs
\* over every temporary path and the run ends rejected.
C15_MissingIntermediateFails ==
    /\ [][(/\ pc = "verifyTemp"
           /\ pc' # pc
           /\ ~({"videoPath", "audioPath"} \subseteq fs))
          => (/\ caught' = "IntermediateMissing"
              /\ pc' = "cleanup"
              /\ cpc' = "video")]_vars
    /\ [](caught = "IntermediateMissing" =>
            /\ mux = "idle"
            /\ "outputPath" \notin fs
            /\ pc \in {"cleanup", "rejected"}
            /\ pc = "rejected" => (CleanupSettled /\ attempted = TemporaryPaths))

\* both transcodes ended, verification failed, and the run was rejected
\* without the mux having been started
C15_Witness ==
    /\ pc = "rejected"
    /\ caught = "IntermediateMissing"
    /\ stage = [s \in Stages |-> "ended"]
    /\ mux = "idle"

\* C16: when the mux reports completion and no file exists at the output
\* path, verifyOutputFile fails: the run ends rejected, never resolved, after
\* cleanup ran over every temporary path (removing the intermediates unless
\* the filesystem refused a deletion).
C16_MissingOutputFails ==
    /\ [][(/\ pc = "verifyOut"
           /\ pc' # pc
           /\ "outputPath" \notin fs)
          => (/\ caught' = "OutputMissing"
              /\ pc' = "cleanup"
              /\ cpc' = "video")]_vars
    /\ [](caught = "OutputMissing" =>
            /\ pc \in {"cleanup", "rejected"}
            /\ pc = "rejected" =>
                 /\ CleanupSettled
                 /\ attempted = TemporaryPaths
                 /\ ~fsFault => fs \cap {"videoPath", "audioPath"} = {})

\* the mux ended without writing, both intermediates had been written, and
\* the run failed with the intermediates removed
C16_Witness ==
    /\ pc = "rejected"
    /\ caught = "OutputMissing"
    /\ mux = "ended"
    /\ stage = [s \in Stages |-> "ended"]
    /\ fs \cap {"videoPath", "audioPath"} = {}
    /\ errors = {}

\* C18: cleanupTemporaryFiles leaves the final output file intact wherever it
\* is located: an output file present when a call started is still present
\* when that call has settled.
C18_CleanupKeepsOutput ==
    (calls >= 1 /\ CleanupSettled /\ "outputPath" \in fsLog[calls])
        => "outputPath" \in fs

(***************************************************************************)
(* Properties of the public operations (SpecApi, SpecProgress)             *)
(***************************************************************************)
\* errors an operation ends with when its identifier did not pass validation
ValidationErrors == {"EmptyUrl", "InvalidUrl"}

\* C11: for an identifier that fails validation, every public operation ends
\* with an error without having made a metadata lookup, opened a stream or
\* touched the filesystem.
C11_InvalidIdentifierStopsEarly ==
    (op \in PublicOps /\ ~AcceptedShape(url)) =>
        /\ lookups = 0
        /\ opened = {}
        /\ fs = {} /\ ~fsFault
        /\ pc = "idle" /\ cpc = "idle"
        /\ validated # "none" => (fn = "none" /\ apiResult \in ValidationErrors)

\* downloadVideo was called with a well-formed URL of another host and ended
\* with the validation error
C11_Witness ==
    /\ op = "downloadVideo"
    /\ url = <<"https://", "other.com", "/", "x">>
    /\ validated = "false"
    /\ apiResult = "InvalidUrl"

\* C13: the progress events createStreams delivers never go down in
\* downloadedBytes, whatever the order of the two streams' data callbacks
\* (stated for formats whose content lengths are both known).
C13_ProgressMonotonic ==
    [][(/\ totalBytes = streamLen["video"] + streamLen["audio"]
        /\ lastEvent.n > 0
        /\ lastEvent'.n > lastEvent.n)
          => lastEvent'.downloadedBytes >= lastEvent.downloadedBytes]_vars

\* C14: when both streams have delivered all their bytes (both content
\* lengths known, so totalBytes is their sum), the last progress event
\* reports downloadedBytes equal to totalBytes and 100 percent.
C14_FinalEventComplete ==
    (/\ opened = Stages
     /\ InnerSink
     /\ \A s \in Stages : delivered[s] = streamLen[s]
     /\ totalBytes = streamLen["video"] + streamLen["audio"])
        => /\ lastEvent.downloadedBytes = lastEvent.totalBytes
           /\ lastEvent.percentage = [kind |-> "number", val |-> 100]

\* errors of the steps that come after the workspace was created: in
\* processMedia, and in createDownloadStream (which selects the formats after
\* its mkdir)
AfterWorkspaceErrors == StepErrors \cup {"CleanupError"}
LegacyAfterWorkspaceErrors == StepErrors \cup SelectErrors

\* C17: a failure after the workspace was created is surfaced (by
\* processMedia, by downloadVideo, by createDownloadStream's catch) only
\* after the cleanup has run over every temporary path and settled.
C17_CleanupBeforeErrorSurfaced ==
    /\ (pc = "rejected" /\ result # "WorkspaceCreationFailed")
          => (CleanupSettled /\ attempted = TemporaryPaths)
    /\ (op = "downloadVideo" /\ apiResult \in AfterWorkspaceErrors)
          => (CleanupSettled /\ attempted = TemporaryPaths)
    /\ (op = "createDownloadStream" /\ apiResult \in LegacyAfterWorkspaceErrors)
          => attempted = TemporaryPaths

\* downloadVideo ended with the mux failure after the cleanup had settled
C17_Witness ==
    /\ op = "downloadVideo"
    /\ apiResult = "MuxFailed"
    /\ CleanupSettled
    /\ attempted = TemporaryPaths

\* C19: getAvailableFormats never succeeds with an empty list.
C19_NoEmptyListAsSuccess ==
    (op = "getAvailableFormats" /\ apiResult = "ok") => returned # <<>>

\* C20: when the formats hold no descriptor with hasVideo or none with
\* hasAudio, selection fails with the no-suitable-format error and no
\* download stream has been opened.
C20_NoSuitableFormatBeforeStreams ==
    (\E s \in Stages : candidates[s] = 0) =>
        /\ opened = {}
        /\ \/ apiResult = "NoSuitableFormat"
           \/ (apc = "catch" /\ caught = "NoSuitableFormat")

\* createStreams found video formats and no audio format and failed
C20_Witness ==
    /\ op = "createStreams"
    /\ candidates["video"] > 0
    /\ candidates["audio"] = 0
    /\ apiResult = "NoSuitableFormat"
    /\ opened = {}

(***************************************************************************)
(* SpecCodec: processVideoStream and processAudioStream called under every *)
(* combination of codec options                                            *)
(***************************************************************************)
InitCodec ==
    /\ Quiescent
    /\ NoCall
    /\ ApiIdle
    /\ ObsIdle
    /\ ClientIdle
    /\ options \in OptionSets

\* processVideoStream / processAudioStream builds and starts its command
ProcessStream(s) ==
    /\ stage[s] = "idle"
    /\ stage' = [stage EXCEPT ![s] = "running"]
    /\ backendCodec' = [backendCodec EXCEPT ![s] = BackendCodec(s, options)]
    /\ UNCHANGED <<pc, outInside, mux, caught, result, fs, fsFault>>
    /\ UNCHANGED <<options, progVars, legacyVars>>
    /\ UNCHANGED <<cleanVars, callVars, sharedVars, apiVars, clientVars>>

NextCodec == \E s \in Stages : ProcessStream(s)

SpecCodec == InitCodec /\ [][NextCodec]_vars

\* C21: each single-stream transcode gives the backend the codec "copy"
\* when no codec option is supplied and the supplied codec otherwise.
C21_CopyByDefault ==
    \A s \in Stages :
        backendCodec[s] # "none" =>
            backendCodec[s] = (IF CodecOption(s, options) \in {"undefined", ""}
                               THEN "copy"
                               ELSE CodecOption(s, options))

(***************************************************************************)
(* SpecDownload: one downloadVideo call with the data events of its two    *)
(* streams.  SpecForward: one downloadVideo call with the progress events  *)
(* of its ffmpeg commands.                                                 *)
(***************************************************************************)
\* the ffmpeg command of stage s emits 'progress': processVideoStream /
\* processAudioStream attached a listener only `if (onProgress)`
StageProgress(s) ==
    /\ stage[s] \in Active
    /\ reported' = reported \cup {s}
    /\ sinkTags' = IF pmSink THEN sinkTags \cup {s} ELSE sinkTags
    /\ UNCHANGED <<pmSink, codecVars, legacyVars>>
    /\ UNCHANGED <<fs, fsFault, pipeVars, cleanVars, callVars, sharedVars, apiVars, clientVars>>

\* the mux command emits 'progress' (stage tag 'combining')
MuxProgress ==
    /\ mux \in Active
    /\ reported' = reported \cup {"combining"}
    /\ sinkTags' = IF pmSink THEN sinkTags \cup {"combining"} ELSE sinkTags
    /\ UNCHANGED <<pmSink, codecVars, legacyVars>>
    /\ UNCHANGED <<fs, fsFault, pipeVars, cleanVars, callVars, sharedVars, apiVars, clientVars>>

\* 'end' of the ffmpeg command of stage s, whose input is download stream s:
\* the command reaches the end of its input after the stream delivered all
DownloadStageEnd(s) ==
    /\ delivered[s] = streamLen[s]
    /\ StageEnd(s)

\* the caller of this run: an accepted URL, a progress sink, and an output
\* path outside the workspace
CallDownloadVideo ==
    /\ Call("downloadVideo")
    /\ url' = <<"youtu.be", "/", "x">>
    /\ withSink' = TRUE

\* a step of the processMedia call of downloadVideo
DownloadPipelineStep ==
    /\ op = "downloadVideo"
    /\ fn = "processMedia"
    /\ \/ ProcessMedia /\ outInside' = FALSE
       \/ CreateTemporaryPaths
       \/ \E s \in Stages : StageOpen(s)
       \/ \E s \in Stages : DownloadStageEnd(s)
       \/ \E s \in Stages : StageFail(s)
       \/ VerifyTemporaryFiles
       \/ MuxOpen
       \/ MuxEnd
       \/ MuxFail
       \/ VerifyOutputFile
       \/ PipelineCleanup
       \/ AfterCleanup

NextDownload ==
    \/ CallDownloadVideo
    \/ ValidateStep
    \/ GetVideoInfoSettles
    \/ CreateStreamsSettles
    \/ \E s \in Stages : StreamData(s)
    \/ DownloadPipelineStep
    \/ DownloadVideoSettles

SpecDownload == Init /\ [][NextDownload]_vars

NextForward ==
    \/ CallDownloadVideo
    \/ ValidateStep
    \/ GetVideoInfoSettles
    \/ CreateStreamsSettles
    \/ DownloadVideoProcess
    \/ \E s \in Stages : StageProgress(s)
    \/ MuxProgress
    \/ DownloadVideoSettles

SpecForward == Init /\ [][NextForward]_vars

\* C22: in a downloadVideo run with a progress sink, every stage the backend
\* reports progress on (video transcode, audio transcode, combining) is
\* forwarded to the sink.
C22_BackendProgressForwarded ==
    (op = "downloadVideo" /\ withSink) => reported \subseteq sinkTags

\* C23: after the sink received {state: 'processing'} it receives no
\* {state: 'downloading'} event any more.
C23_NoDownloadingAfterProcessing ==
    [][sinkState = "processing" => sinkState' # "downloading"]_vars

\* C26: after downloadVideo has resolved or rejected, the sink receives no
\* further event of that run.
C26_NoEventAfterSettled ==
    [][(op = "downloadVideo" /\ withSink /\ apiResult # "none")
          => (lastEvent' = lastEvent /\ sinkState' = sinkState
                /\ sinkTags' = sinkTags)]_vars

\* C27: when totalBytes is 0 every progress event reports a percentage of
\* zero (or none), never the result of a division by zero.
C27_NoDivisionByZero ==
    (lastEvent.n > 0 /\ lastEvent.totalBytes = 0)
        => lastEvent.percentage = [kind |-> "number", val |-> 0]

\* C25: when createTemporaryPaths fails in a downloadVideo run, no download
\* stream of the run is open.
C25_NoStreamAtWorkspaceFailure ==
    (op = "downloadVideo" /\ result = "WorkspaceCreationFailed")
        => opened \ destroyed = {}

\* C24: a run that resolves went through its steps in order, each step
\* entered from its predecessor only: both transcodes ended, intermediates
\* verified, mux ended, output verified, cleanup returned without error.
C24_CompletedRunStepOrder ==
    /\ [][pc' # pc =>
            /\ pc' = "verifyTemp" =>
                 (pc = "join" /\ stage' = [s \in Stages |-> "ended"])
            /\ pc' = "mux" =>
                 (pc = "verifyTemp" /\ {"videoPath", "audioPath"} \subseteq fs
                    /\ mux = "idle")
            /\ pc' = "verifyOut" => (pc = "mux" /\ mux' = "ended")
            /\ (pc' = "cleanup" /\ caught' = "none") =>
                 (pc = "verifyOut" /\ "outputPath" \in fs /\ cpc = "idle")
            /\ pc' = "resolved" =>
                 (pc = "cleanup" /\ caught = "none" /\ cpc = "returned")]_vars
    /\ [](pc = "resolved" =>
            /\ stage = [s \in Stages |-> "ended"]
            /\ mux = "ended"
            /\ caught = "none"
            /\ cpc = "returned" /\ errors = {} /\ attempted = TemporaryPaths)

\* a run resolved after a cleanup that removed the whole workspace
C24_Witness ==
    /\ pc = "resolved"
    /\ result = "ok"
    /\ cpc = "returned"
    /\ fs \cap TemporaryPaths = {}

\* C28: cleanupTemporaryFiles is called exactly once in a run whose
\* workspace was created (started once, never restarted, settled before the
\* run ends) and not at all when createTemporaryPaths failed.
C28_CleanupExactlyOnce ==
    /\ [][(cpc' = "video" /\ cpc # "video")
            => (cpc = "idle" /\ pc # "cleanup" /\ pc' = "cleanup")]_vars
    /\ [](Terminal =>
            IF result = "WorkspaceCreationFailed"
            THEN cpc = "idle" /\ attempted = {}
            ELSE CleanupSettled /\ attempted = TemporaryPaths)

\* a run whose video transcode failed ended after its one cleanup
C28_Witness ==
    /\ pc = "rejected"
    /\ caught = "VideoFailed"
    /\ CleanupSettled

\* C29: when a step inside createDownloadStream's try block fails, the
\* function rejects with that step's error after the streams it had opened
\* were destroyed and both temporary files and the directory were passed by
\* the cleanup; a failing cleanup never replaces the error.
C29_LegacySurfacesStepError ==
    (op = "createDownloadStream" /\ caught # "none" /\ apc = "done") =>
        /\ apiResult = caught
        /\ destroyed = opened
        /\ attempted = TemporaryPaths

\* C29 as stated, for every step before the stream is returned: whenever a
\* call with a valid URL rejects, the cleanup was attempted first.  The metadata
\* lookup and the creation of the directory precede the try block.
C29_AnyStepFailureCleansUp ==
    (op = "createDownloadStream" /\ apiResult \in {"LookupFailed", "WorkspaceCreationFailed"}) =>
        attempted = TemporaryPaths

\* the video transcode failed, the cleanup could not delete the video file,
\* and the function still rejected with the transcode's error
C29_Witness ==
    /\ op = "createDownloadStream"
    /\ apiResult = "VideoFailed"
    /\ "videoPath" \in fs
    /\ fsFault
    /\ destroyed = {"video"}

\* C30 as stated: once both downloads of createDownloadStream delivered all
\* their bytes, the last reported downloadedBytes equals the reported
\* totalBytes.
C30_DownloadedReachesTotal ==
    (/\ op = "createDownloadStream"
     /\ withSink
     /\ opened = Stages
     /\ \A s \in Stages : delivered[s] = streamLen[s]
     /\ lastEvent.n > 0) =>
        lastEvent.downloadedBytes = lastEvent.totalBytes

\* C30, amended: the audio download is opened only after the video transcode
\* ended; the one counter holds the bytes of both downloads; the reported
\* downloadedBytes never decreases; and it equals totalBytes once both
\* downloads delivered all their bytes when both chosen formats carried a
\* content length.
C30_SharedCounterMonotone ==
    /\ [](op = "createDownloadStream" =>
            /\ ("audio" \in opened => stage["video"] = "ended")
            /\ (withSink =>
                    sharedDownloaded = delivered["video"] + delivered["audio"])
            /\ (lastEvent.n > 0 => lastEvent.downloadedBytes = sharedDownloaded)
            /\ (/\ withSink
                /\ opened = Stages
                /\ \A s \in Stages : delivered[s] = streamLen[s]
                /\ totalBytes = streamLen["video"] + streamLen["audio"]
                /\ lastEvent.n > 0) =>
                    lastEvent.downloadedBytes = lastEvent.totalBytes)
    /\ [][lastEvent'.downloadedBytes >= lastEvent.downloadedBytes]_vars

\* both downloads delivered everything, the stream was returned, the last
\* event of the audio download reported the total of both
C30_Witness ==
    /\ op = "createDownloadStream"
    /\ apiResult = "ok"
    /\ withSink
    /\ \A s \in Stages : delivered[s] = streamLen[s] /\ streamLen[s] > 0
    /\ lastEvent.n >= 2
    /\ lastEvent.downloadedBytes = totalBytes
    /\ totalBytes > streamLen["video"]

(***************************************************************************)
(* The client: the App component, its URL submissions and its timers       *)
(***************************************************************************)
\* `return prev + 10`
ProgressStep == 10

\* `if (prev >= 100)`, `return 100`
ProgressMax == 100

\* type DownloadStatus
DownloadStatus == {"idle", "downloading", "completed", "error"}

Submits == 1..MaxSubmits

\* everything but the client's state
serverVars == <<fs, fsFault, pipeVars, cleanVars, callVars, sharedVars, apiVars, obsVars>>

\* the updater of the timer callback, mutated: without the test of prev
TickProgressUnbounded(prev) == prev + ProgressStep

\* the value the updater passed to setDownloadProgress returns for prev
TickProgress(prev) ==
    IF prev >= ProgressMax THEN ProgressMax ELSE prev + ProgressStep

\* the branch of the updater, mutated: never taken
TickClearsNever(prev) == FALSE

\* the branch of the updater that calls clearInterval(interval) and
\* setDownloadStatus('completed')
TickClears(prev) == prev >= ProgressMax

\* startDownload(), called by submission k: the status and the progress are
\* set and a new interval timer is created
StartDownload(k) ==
    /\ downloadStatus' = "downloading"
    /\ downloadProgress' = 0
    /\ intervals' = intervals \cup {k}

\* the catch and finally blocks of handleURLSubmit
SubmitFails(k) ==
    /\ videoDetails' = "null"
    /\ isLoading' = FALSE
    /\ hpc' = [hpc EXCEPT ![k] = "failed"]
    /\ UNCHANGED <<downloadStatus, downloadProgress, intervals>>

\* URLInput calls handleURLSubmit(url): setIsLoading(true), then the fetch is
\* issued and awaited
HandleURLSubmit(k) ==
    /\ hpc[k] = "idle"
    /\ \A j \in Submits : j < k => hpc[j] # "idle"
    /\ isLoading' = TRUE
    /\ hpc' = [hpc EXCEPT ![k] = "fetch"]
    /\ UNCHANGED <<videoDetails, downloadStatus, downloadProgress, intervals>>
    /\ UNCHANGED serverVars

\* `await fetch(...)` of submission k settles: it rejects, or resolves with a
\* response whose `ok` is false (both end in the catch block), or with one
\* whose `ok` is true
FetchSettles(k) ==
    /\ hpc[k] = "fetch"
    /\ \E outcome \in {"rejects", "notOk", "ok"} :
        IF outcome = "ok"
        THEN /\ hpc' = [hpc EXCEPT ![k] = "json"]
             /\ UNCHANGED <<appVars, intervals>>
        ELSE SubmitFails(k)
    /\ UNCHANGED serverVars

\* `await response.json()` of submission k settles: it rejects, or resolves
\* and setVideoDetails(data), startDownload() and the finally block run
JsonSettles(k) ==
    /\ hpc[k] = "json"
    /\ \E outcome \in {"rejects", "data"} :
        IF outcome = "data"
        THEN /\ videoDetails' = "data"
             /\ StartDownload(k)
             /\ isLoading' = FALSE
             /\ hpc' = [hpc EXCEPT ![k] = "done"]
        ELSE SubmitFails(k)
    /\ UNCHANGED serverVars

\* the interval timer created by the startDownload of submission k fires:
\* setDownloadProgress runs the updater on the current progress
IntervalFires(k) ==
    /\ k \in intervals
    /\ downloadProgress' = TickProgress(downloadProgress)
    /\ IF TickClears(downloadProgress)
       THEN /\ intervals' = intervals \ {k}
            /\ downloadStatus' = "completed"
       ELSE UNCHANGED <<intervals, downloadStatus>>
    /\ UNCHANGED <<videoDetails, isLoading, hpc>>
    /\ UNCHANGED serverVars

NextClient ==
    \/ \E k \in Submits : HandleURLSubmit(k)
    \/ \E k \in Submits : FetchSettles(k)
    \/ \E k \in Submits : JsonSettles(k)
    \/ \E k \in Submits : IntervalFires(k)

SpecClient == Init /\ [][NextClient]_vars

\* a timer that was set and not cleared fires again and again
SpecClientFair ==
    /\ Init
    /\ [][NextClient]_vars
    /\ \A k \in Submits : WF_vars(IntervalFires(k))

\* C31: whatever URL submissions and timer firings happened, overlapping
\* downloads included, downloadProgress is within 0..100, the status is
\* 'completed' only with the progress at 100, the status is never 'error',
\* and a submission whose fetch failed starts no download.
C31_ClientProgressInvariant ==
    /\ [](/\ downloadProgress \in 0..ProgressMax
          /\ downloadStatus \in DownloadStatus \ {"error"}
          /\ (downloadStatus = "completed" => downloadProgress = ProgressMax)
          /\ \A k \in Submits : hpc[k] = "failed" => k \notin intervals)
    /\ [][\A k \in Submits :
            (hpc'[k] = "failed" /\ hpc[k] # "failed") =>
                UNCHANGED <<downloadStatus, downloadProgress, intervals>>]_vars

\* a download completed while the timer of an overlapping one is still set,
\* after another submission's fetch had failed
C31_Witness ==
    /\ downloadStatus = "completed"
    /\ downloadProgress = ProgressMax
    /\ intervals # {}
    /\ \E k \in Submits : hpc[k] = "failed"

\* C32: once startDownload has set a timer (and the submissions, which are
\* finitely many, have stopped), the status becomes 'completed' with the
\* progress at 100 and every timer cleared.
C32_DownloadCompletes ==
    (intervals # {}) ~>
        (/\ downloadStatus = "completed"
         /\ downloadProgress = ProgressMax
         /\ intervals = {})

\* a download ran to completion and its timer was cleared
C32_Witness ==
    /\ \E k \in Submits : hpc[k] = "done"
    /\ downloadStatus = "completed"
    /\ downloadProgress = ProgressMax
    /\ intervals = {}

====
